---- MODULE Spec2Model ----
(***************************************************************************)
(* Ladybug "Tilt And Orientation Factor" component                         *)
(* (src/src/Ladybug_Tilt And Orientation Factor.py), one run of the        *)
(* component from its inputs to its outputs.                               *)
(*                                                                         *)
(* Number representation.  The component is Python 2 (IronPython): "/" on  *)
(* two ints is floor division, on a float it is real division.             *)
(*   - explicit angle inputs are floats, held in hundredths of a degree;   *)
(*   - values that went through round(x,1) are held in tenths (srfTiltD,   *)
(*     srfAzimuthD, optimalTiltD, optimalAzimuthD, TOF, TSRF);             *)
(*   - the grid angles and the mesh steps are Python ints (whole numbers); *)
(*   - annualShading_/albedo_/scale_ carry their Python type, their value  *)
(*     is held in tenths;                                                  *)
(*   - float arithmetic is modelled exactly (as rationals).                *)
(*                                                                         *)
(* anglesClockwise is a module global that the entry sets to True before   *)
(* it calls main(); main() and createGeometry keep a branch for each value.*)
(***************************************************************************)
EXTENDS Integers, Sequences, FiniteSets, TLC

VARIABLES
    \* inputs of the component
    _PVsurface, _epwFile, PVsurfaceTiltAngle_, PVsurfaceAzimuthAngle_,
    annualShading_, north_, albedo_, precision_, scale_, origin_, _runIt,
    \* the weather file's content
    epw,
    \* control
    pc, printMsg,
    \* PVsurfaceInputData / getEpwData results, and the sweep direction the
    \* entry sets before it resolves the surface's angles
    PVsurfaceInputType, latitude, annualShading, albedo, precision, scale,
    originOffset, anglesClockwise,
    \* orientation of the analysed surface
    srfAzimuthD, surfaceTiltDCalculated, correctedSrfAzimuthD, srfTiltD,
    \* main(): grid, mesh, loop counters
    srfTiltTOFList, srfAzimuthTOFList, meshPtStepU, meshPtStepV,
    i, k, meshPts, totalRadiationPerYearL,
    \* main(): results
    maximalTotalRadiationPerYear, optimalAzimuthD, optimalTiltD,
    totalRadiationPerYear, TOF, TSRF,
    \* outputs the entry assigns after main(), createGeometry and printOutput
    PVsurfaceTilt, PVsurfaceAzimuth, optimalTilt, optimalAzimuth,
    optimalRadiation

inputs == <<_PVsurface, _epwFile, PVsurfaceTiltAngle_, PVsurfaceAzimuthAngle_,
            annualShading_, north_, albedo_, precision_, scale_, origin_,
            _runIt, epw>>
validated == <<PVsurfaceInputType, latitude, annualShading, albedo, precision,
               scale, originOffset, anglesClockwise>>
orientation == <<srfAzimuthD, surfaceTiltDCalculated, correctedSrfAzimuthD,
                 srfTiltD>>
grid == <<srfTiltTOFList, srfAzimuthTOFList, meshPtStepU, meshPtStepV,
          i, k, meshPts, totalRadiationPerYearL>>
results == <<maximalTotalRadiationPerYear, optimalAzimuthD, optimalTiltD,
             totalRadiationPerYear, TOF, TSRF>>
outputs == <<PVsurfaceTilt, PVsurfaceAzimuth, optimalTilt, optimalAzimuth,
             optimalRadiation>>
vars == <<inputs, pc, printMsg, validated, orientation, grid, results, outputs>>

----------------------------------------------------------------------------
(* Bounds of the model *)

\* the positions tried for an optimum point between two mesh units: its
\* offsets from originOffset are multiples of 1/MeshSubdivision
MeshSubdivision == 50

\* largest precision_ value fed to a run that simulates the grid
MaxPrecision == 7

----------------------------------------------------------------------------
(* Python values *)

\* Python's None, for a number-valued name (no number of the model equals it)
None == 0 - 100000

\* the string "needs to be calculated" of srfAzimuthAngle / srfTiltAngle
NeedsToBeCalculated == 0 - 100001

Abs(x) == IF x < 0 THEN 0 - x ELSE x

\* num/den cut towards zero instead of rounded
Truncate(num, den) ==
    IF num >= 0 THEN num \div den ELSE 0 - ((0 - num) \div den)

\* round(num/den) of Python 2 for den > 0: half away from zero
RoundHalfAway(num, den) ==
    IF num >= 0 THEN (2 * num + den) \div (2 * den)
                ELSE 0 - ((2 * (0 - num) + den) \div (2 * den))

\* round(num/den, 1) in tenths
Round1(num, den) == RoundHalfAway(10 * num, den)

\* a Python number: its type and its value in tenths
PyInt(n) == [type |-> "int", v |-> 10 * n]
PyFloat(tenths) == [type |-> "float", v |-> tenths]
NoneValue == [type |-> "NoneType", v |-> None]

----------------------------------------------------------------------------
(* PVsurfaceInputData *)

\* a _PVsurface input.  kind: "None", "brep", "number", "kw", "text";
\* a brep carries what Rhino and lb_photovoltaics report for it: its face
\* count, its azimuth and tilt (hundredths) and the tilt srfAzimuthAngle
\* already found (None, or 0, 90, 180 degrees)
PVsurfaceValue(kind, faces, azimuth, tiltCalculated, tilt) ==
    [kind |-> kind, faces |-> faces, azimuth |-> azimuth,
     tiltCalculated |-> tiltCalculated, tilt |-> tilt]

\* a missing _PVsurface taken for an area
PVsurfaceInputDataAcceptsNone(PVsurface) ==
    IF PVsurface.kind = "brep"
    THEN IF PVsurface.faces > 1
         THEN [PVsurfaceInputType |-> "None", validPVsurfaceData |-> FALSE,
               printMsg |-> "polysurface"]
         ELSE [PVsurfaceInputType |-> "brep", validPVsurfaceData |-> TRUE,
               printMsg |-> "ok"]
    ELSE IF PVsurface.kind \in {"number", "None"}
    THEN [PVsurfaceInputType |-> "number", validPVsurfaceData |-> TRUE,
          printMsg |-> "ok"]
    ELSE IF PVsurface.kind = "kw"
    THEN [PVsurfaceInputType |-> "None", validPVsurfaceData |-> FALSE,
          printMsg |-> "kw not supported"]
    ELSE [PVsurfaceInputType |-> "None", validPVsurfaceData |-> FALSE,
          printMsg |-> "Something is wrong with PVsurface"]

\* the face count of a brep not looked at
PVsurfaceInputDataAcceptsPolysurface(PVsurface) ==
    IF PVsurface.kind = "None"
    THEN [PVsurfaceInputType |-> "None", validPVsurfaceData |-> FALSE,
          printMsg |-> "Please input Surface"]
    ELSE IF PVsurface.kind = "brep"
    THEN [PVsurfaceInputType |-> "brep", validPVsurfaceData |-> TRUE,
          printMsg |-> "ok"]
    ELSE IF PVsurface.kind = "number"
    THEN [PVsurfaceInputType |-> "number", validPVsurfaceData |-> TRUE,
          printMsg |-> "ok"]
    ELSE IF PVsurface.kind = "kw"
    THEN [PVsurfaceInputType |-> "None", validPVsurfaceData |-> FALSE,
          printMsg |-> "kw not supported"]
    ELSE [PVsurfaceInputType |-> "None", validPVsurfaceData |-> FALSE,
          printMsg |-> "Something is wrong with PVsurface"]

PVsurfaceInputData(PVsurface) ==
    IF PVsurface.kind = "None"
    THEN [PVsurfaceInputType |-> "None", validPVsurfaceData |-> FALSE,
          printMsg |-> "Please input Surface"]
    ELSE IF PVsurface.kind = "brep"
    THEN IF PVsurface.faces > 1
         THEN [PVsurfaceInputType |-> "None", validPVsurfaceData |-> FALSE,
               printMsg |-> "polysurface"]
         ELSE [PVsurfaceInputType |-> "brep", validPVsurfaceData |-> TRUE,
               printMsg |-> "ok"]
    ELSE IF PVsurface.kind = "number"
    THEN [PVsurfaceInputType |-> "number", validPVsurfaceData |-> TRUE,
          printMsg |-> "ok"]
    ELSE IF PVsurface.kind = "kw"
    THEN [PVsurfaceInputType |-> "None", validPVsurfaceData |-> FALSE,
          printMsg |-> "kw not supported"]
    ELSE [PVsurfaceInputType |-> "None", validPVsurfaceData |-> FALSE,
          printMsg |-> "Something is wrong with PVsurface"]

----------------------------------------------------------------------------
(* getEpwData: defaults for missing or out-of-range inputs *)

\* the shading check without its upper bound
ShadingOrDefaultNoUpperBound(s) ==
    IF s.type = "NoneType" \/ s.v < 0 THEN PyInt(0) ELSE s

ShadingOrDefault(s) ==
    IF s.type = "NoneType" \/ s.v < 0 \/ s.v > 1000 THEN PyInt(0) ELSE s

AlbedoOrDefault(a) ==
    IF a.type = "NoneType" \/ a.v < 0 \/ a.v > 10 THEN PyFloat(2) ELSE a

PrecisionOrDefault(p) ==
    IF p = None \/ p < 1 \/ p > 100 THEN 2 ELSE p

ScaleOrDefault(s) ==
    IF s.type = "NoneType" \/ s.v < 0 THEN PyInt(1) ELSE s

\* origin_ is <<X, Y>> or <<None, None>>; originOffset is <<origin.X+15, origin.Y>>
OriginOffset(origin) ==
    IF origin[1] = None THEN <<0 - 15 + 15, 0>> ELSE <<origin[1] + 15, origin[2]>>

----------------------------------------------------------------------------
(* getEpwData: the calendar of the 8760 hours *)

\* [x for i in range(n)]
Repeat(x, n) == [j \in 1..n |-> x]

\* the lengths of the twelve list comprehensions of monthsHOY
MonthHours == <<744, 672, 744, 720, 744, 720, 744, 744, 720, 744, 720, 744>>

RECURSIVE MonthsFrom(_)
MonthsFrom(m) ==
    IF m > Len(MonthHours) THEN <<>>
    ELSE Repeat(m, MonthHours[m]) \o MonthsFrom(m + 1)

MonthsHOY == MonthsFrom(1)

\* a calendar with a 29-day February
NumberOfDaysMonthLeap == <<31, 29, 31, 30, 31, 30, 31, 31, 30, 31, 30, 31>>

NumberOfDaysMonth == <<31, 28, 31, 30, 31, 30, 31, 31, 30, 31, 30, 31>>

\* the passes of "for k in range(item): for g in range(24)" for one month:
\* day starts at 1 and is appended 24 times before it is incremented
DaysOfMonth(item) == [j \in 1..(24 * item) |-> ((j - 1) \div 24) + 1]

RECURSIVE DaysFrom(_)
DaysFrom(m) ==
    IF m > Len(NumberOfDaysMonth) THEN <<>>
    ELSE DaysOfMonth(NumberOfDaysMonth[m]) \o DaysFrom(m + 1)

DaysHOY == DaysFrom(1)

\* "for i in range(365): for k in range(24)": hour runs 1..24 and restarts
HoursHOY == [j \in 1..(365 * 24) |-> ((j - 1) % 24) + 1]

\* range(1, 8761)
HOYs == [j \in 1..(8761 - 1) |-> j]

----------------------------------------------------------------------------
(* srfAzimuthAngle, srfTiltAngle, correctSrfAzimuthDforNorth *)

\* the equator-facing azimuth in degrees, None where neither branch assigns it
EquatorFacing(lat) ==
    IF lat > 0 THEN 180 ELSE IF lat < 0 THEN 0 ELSE None

\* srfAzimuthD in tenths; bound = FALSE where the return statement reads a
\* name no branch assigned (UnboundLocalError)
SrfAzimuthAngle(PVsurfaceAzimuthAngle, InputType, PVsurface, lat) ==
    IF PVsurfaceAzimuthAngle # None
    THEN IF PVsurfaceAzimuthAngle < 0 \/ PVsurfaceAzimuthAngle > 36000
         THEN [bound |-> EquatorFacing(lat) # None,
               srfAzimuthD |-> 10 * EquatorFacing(lat),
               surfaceTiltDCalculated |-> NeedsToBeCalculated]
         ELSE [bound |-> TRUE,
               srfAzimuthD |-> Round1(PVsurfaceAzimuthAngle, 100),
               surfaceTiltDCalculated |-> NeedsToBeCalculated]
    ELSE IF InputType = "brep"
    THEN [bound |-> TRUE,
          srfAzimuthD |-> Round1(PVsurface.azimuth, 100),
          surfaceTiltDCalculated |->
              IF PVsurface.tiltCalculated = None THEN NeedsToBeCalculated
              ELSE PVsurface.tiltCalculated]
    ELSE [bound |-> EquatorFacing(lat) # None,
          srfAzimuthD |-> 10 * EquatorFacing(lat),
          surfaceTiltDCalculated |-> NeedsToBeCalculated]

\* srfTiltAngle without its range check on the explicit tilt
SrfTiltAngleNoRangeCheck(PVsurfaceTiltAngle, TiltDCalculated, InputType, PVsurface, lat) ==
    IF PVsurfaceTiltAngle # None THEN Round1(PVsurfaceTiltAngle, 100)
    ELSE IF TiltDCalculated \in {0, 90, 180} THEN 10 * TiltDCalculated
    ELSE IF InputType = "brep" THEN Round1(PVsurface.tilt, 100)
    ELSE 10 * Abs(lat)

\* srfTiltAngle clamping an out-of-range explicit tilt to the nearest bound
SrfTiltAngleClamped(PVsurfaceTiltAngle, TiltDCalculated, InputType, PVsurface, lat) ==
    IF PVsurfaceTiltAngle # None
    THEN IF PVsurfaceTiltAngle < 0 THEN 0
         ELSE IF PVsurfaceTiltAngle > 18000 THEN 1800
         ELSE Round1(PVsurfaceTiltAngle, 100)
    ELSE IF TiltDCalculated \in {0, 90, 180} THEN 10 * TiltDCalculated
    ELSE IF InputType = "brep" THEN Round1(PVsurface.tilt, 100)
    ELSE 10 * Abs(lat)

\* srfTiltD in tenths
SrfTiltAngle(PVsurfaceTiltAngle, TiltDCalculated, InputType, PVsurface, lat) ==
    IF PVsurfaceTiltAngle # None
    THEN IF PVsurfaceTiltAngle < 0 THEN 0
         ELSE IF PVsurfaceTiltAngle > 18000 THEN 0
         ELSE Round1(PVsurfaceTiltAngle, 100)
    ELSE IF TiltDCalculated \in {0, 90, 180} THEN 10 * TiltDCalculated
    ELSE IF InputType = "brep" THEN Round1(PVsurface.tilt, 100)
    ELSE 10 * Abs(lat)

\* north_ is None or a number of degrees.  valid = FALSE is the early return
\* of three values, which the caller's four-name unpacking cannot take.
\* northDeg = 360 - degrees(2*pi - radians(north)) = north
CorrectSrfAzimuthDforNorth(north, azimuthD) ==
    IF north = None
    THEN [validNorth |-> TRUE, correctedSrfAzimuthD |-> azimuthD]
    ELSE IF north < 0 \/ north > 360
    THEN [validNorth |-> FALSE, correctedSrfAzimuthD |-> None]
    ELSE [validNorth |-> TRUE,
          correctedSrfAzimuthD |->
              IF 10 * north + azimuthD > 3600 THEN 10 * north + azimuthD - 3600
              ELSE 10 * north + azimuthD]

----------------------------------------------------------------------------
(* The yearly sum of lb_photovoltaics.POAirradiance over the 8760 hours *)

\* angular distance of two azimuths (tenths), periodic in 360 degrees
AzimuthDistance(a, b) ==
    LET d == (a - b) % 3600 IN IF d > 1800 THEN 3600 - d ELSE d

\* The yearly plane-of-array total (Wh/m2) of a surface at a site: a
\* deterministic, non-negative function of the tilt and of the azimuth modulo
\* 360 (angles in tenths).  site.amp is the total at the site's best
\* orientation (site.tilt, site.azimuth); amp = 0 is a file without radiation.
YearlyRadiation(site, tiltD, azimuthD) ==
    LET fall == Abs(tiltD - site.tilt) + AzimuthDistance(azimuthD, site.azimuth)
    IN  IF site.amp > fall THEN site.amp - fall ELSE 0

----------------------------------------------------------------------------
(* main(): the tilt/azimuth grid and the mesh *)

Wrap360(a) == IF a >= 360 THEN a - 360 ELSE a

\* Python 2 "/" on ints
StepSrfTilt(p) == 90 \div p
StepSrfAzimuth(p) == 180 \div p

\* the tilt loop running one pass too many
SrfTiltTOFListLong(p) == [j \in 1..(p + 2) |-> StepSrfTilt(p) * (j - 1)]

SrfTiltTOFList(p) == [j \in 1..(p + 1) |-> StepSrfTilt(p) * (j - 1)]

\* the tilt loop of the branch main() takes for the sweep direction
SrfTiltTOFListOf(p, clockwise) ==
    IF clockwise THEN SrfTiltTOFList(p)
    ELSE [j \in 1..(p + 1) |-> StepSrfTilt(p) * (j - 1)]

\* the azimuth loop running the same way for both sweep directions
AzimuthLoopIndexOneWay(p, lat, clockwise, j) ==
    IF lat >= 0 THEN p - (j - 1) ELSE j - 1

\* element j is appended at loop pass j
AzimuthLoopIndex(p, lat, clockwise, j) ==
    IF clockwise = (lat >= 0) THEN p - (j - 1) ELSE j - 1

SrfAzimuthTOFList(p, lat, clockwise) ==
    [j \in 1..(p + 1) |->
        IF lat >= 0
        THEN 90 + StepSrfAzimuth(p) * AzimuthLoopIndex(p, lat, clockwise, j)
        ELSE Wrap360(270 + StepSrfAzimuth(p) * AzimuthLoopIndex(p, lat, clockwise, j))]

MeshPtStepU(azimuthList) == 80 \div (Len(azimuthList) - 1)
MeshPtStepV(tiltList) == 45 \div (Len(tiltList) - 1)

\* the mesh point of row ii, column kk (the same in both branches)
MeshPt(offset, stepU, stepV, ii, kk) ==
    <<offset[1] + stepU * kk, offset[2] + stepV * ii>>

SeqMax(s) == CHOOSE m \in {s[j] : j \in 1..Len(s)} : \A j \in 1..Len(s) : s[j] <= m

MaximalTotalRadiationPerYear(totals) == SeqMax(totals)

----------------------------------------------------------------------------
(* main(): the optimum's angles from its mesh point *)

AzimuthMeshStartValue(lat) == IF lat >= 0 THEN 90 ELSE 270

\* "if optimalAzimuthD > 360" in place of ">= 360"
Wrap3600Above(a) == IF a > 3600 THEN a - 3600 ELSE a

Wrap3600(a) == IF a >= 3600 THEN a - 3600 ELSE a

\* optimalAzimuthD (tenths) for optimalPt.X - originOffset.X = n/d, d > 0
OptimalAzimuthDAt(n, d, lat, clockwise) ==
    IF clockwise
    THEN IF lat >= 0
         THEN Round1(80 * d * (180 + AzimuthMeshStartValue(lat)) - 180 * n, 80 * d)
         ELSE Wrap3600(Round1(180 * n + 80 * d * AzimuthMeshStartValue(lat), 80 * d))
    ELSE IF lat >= 0
         THEN Round1(180 * n + 80 * d * AzimuthMeshStartValue(lat), 80 * d)
         ELSE Wrap3600(Round1(80 * d * (180 + AzimuthMeshStartValue(lat)) - 180 * n, 80 * d))

\* dx = optimalPt.X - originOffset.X; the result is in tenths
OptimalAzimuthD(dx, lat, clockwise) == OptimalAzimuthDAt(dx, 1, lat, clockwise)

\* optimalTiltD (tenths) for optimalPt.Y - originOffset.Y = n/d, d > 0
OptimalTiltDAt(n, d) == Round1(90 * n, 45 * d)

\* dy = optimalPt.Y - originOffset.Y; the result is in tenths
OptimalTiltD(dy) == OptimalTiltDAt(dy, 1)

----------------------------------------------------------------------------
(* createGeometry: the labels of the azimuth axis *)

XAxisNotchValues(lat, clockwise) ==
    IF clockwise
    THEN IF lat >= 0 THEN <<270, 240, 210, 180, 150, 120, 90>>
         ELSE <<270, 300, 330, 0, 30, 60, 90>>
    ELSE IF lat >= 0 THEN <<90, 120, 150, 180, 210, 240, 270>>
         ELSE <<90, 60, 30, 0, 330, 300, 270>>

----------------------------------------------------------------------------
(* main(): the analysed surface, TOF and TSRF *)

\* the analysis-point branch adding 180 instead of 360
AnalysedAzimuthDHalfTurn(azimuthD, lat, clockwise) ==
    IF lat >= 0 THEN azimuthD
    ELSE IF clockwise
    THEN IF azimuthD >= 0 /\ azimuthD < 2700 THEN azimuthD + 1800 ELSE azimuthD
    ELSE IF azimuthD >= 0 /\ azimuthD <= 900 THEN azimuthD + 1800 ELSE azimuthD

\* srfAzimuthD as the analysis-point branch leaves it for the simulation
AnalysedAzimuthD(azimuthD, lat, clockwise) ==
    IF lat >= 0 THEN azimuthD
    ELSE IF clockwise
    THEN IF azimuthD >= 0 /\ azimuthD < 2700 THEN azimuthD + 3600 ELSE azimuthD
    ELSE IF azimuthD >= 0 /\ azimuthD <= 900 THEN azimuthD + 3600 ELSE azimuthD

\* TOF without the "if TOF > 100" replacement
TofNoClamp(total, maximal) == Round1(100 * total, maximal)

\* TOF cut to one decimal instead of rounded
TofTruncated(total, maximal) ==
    LET t == Truncate(1000 * total, maximal)
    IN  IF t > 1000 THEN 1000 ELSE t

\* TOF in tenths of a percent
Tof(total, maximal) ==
    LET t == Round1(100 * total, maximal)
    IN  IF t > 1000 THEN 1000 ELSE t

\* annualShading/100 in place of (100-annualShading)/100
ShadingFactorShaded(shading) ==
    IF shading.type = "int"
    THEN <<shading.v \div 1000, 1>>
    ELSE <<shading.v, 1000>>

\* (100-annualShading)/100: floor division for an int, a fraction
\* <<numerator, denominator>> for a float
ShadingFactor(shading) ==
    IF shading.type = "int"
    THEN <<(1000 - shading.v) \div 1000, 1>>
    ELSE <<1000 - shading.v, 1000>>

\* int(maximalTotalRadiationPerYear/1000) of main()'s return statement
OptimalRadiation(maximal) == maximal \div 1000

\* TSRF with (100+annualShading) in place of (100-annualShading)
TsrfSignSlip(tof, shading) ==
    IF shading.type = "int"
    THEN tof * ((1000 + shading.v) \div 1000)
    ELSE RoundHalfAway(tof * (1000 + shading.v), 1000)

\* TSRF in tenths of a percent
Tsrf(tof, shading) ==
    RoundHalfAway(tof * ShadingFactor(shading)[1], ShadingFactor(shading)[2])

----------------------------------------------------------------------------
(* Inputs *)

PVsurfaceNone == PVsurfaceValue("None", 0, None, None, None)
PVsurfaceArea == PVsurfaceValue("number", 0, None, None, None)
PVsurfaceKw == PVsurfaceValue("kw", 0, None, None, None)
PVsurfaceText == PVsurfaceValue("text", 0, None, None, None)
PVsurfacePoly == PVsurfaceValue("brep", 6, None, None, None)
\* single faces: one facing south-east at 37.25 degrees, one lying flat
PVsurfaceSlope == PVsurfaceValue("brep", 1, 13500, None, 3725)
PVsurfaceFlat == PVsurfaceValue("brep", 1, 18000, 0, 0)

\* the sites: best orientation on the grid (north and south of the equator),
\* best orientation between the grid's cells, a file without radiation
SiteNorth == [amp |-> 2000, tilt |-> 450, azimuth |-> 1800]
SiteSouth == [amp |-> 2000, tilt |-> 450, azimuth |-> 0]
SiteOffGrid == [amp |-> 4000, tilt |-> 373, azimuth |-> 1350]
SiteDark == [amp |-> 0, tilt |-> 0, azimuth |-> 0]

Latitudes == {0 - 35, 0, 40}

\* what the run reads from the weather file
Epw(valid, lat, site) == [valid |-> valid, latitude |-> lat, site |-> site]

\* explicit angles, in hundredths of a degree
TiltInputs == {None, 4500, 3725, 18100, 0 - 500}
AzimuthInputs == {None, 18000, 0, 13504, 36000, 36100}
ShadingInputs == {NoneValue, PyInt(30), PyFloat(125), PyInt(100), PyFloat(1000),
                  PyInt(101)}
PrecisionInputs == {None, 0, 101} \cup 1..MaxPrecision

\* the inputs of one run, in the order of the component's input list

Config(sf, ef, ti, az, sh, no, al, pr, sc, og, ru, e) ==
    /\ _PVsurface = sf
    /\ _epwFile = ef
    /\ PVsurfaceTiltAngle_ = ti
    /\ PVsurfaceAzimuthAngle_ = az
    /\ annualShading_ = sh
    /\ north_ = no
    /\ albedo_ = al
    /\ precision_ = pr
    /\ scale_ = sc
    /\ origin_ = og
    /\ _runIt = ru
    /\ epw = e

\* runs over the surface's angles, the shading and the site
InitAngles ==
    \E surface \in {PVsurfaceArea, PVsurfaceSlope},
       tilt \in TiltInputs, azimuth \in AzimuthInputs,
       shading \in ShadingInputs, prec \in {None, 3},
       lat \in Latitudes, site \in {SiteNorth, SiteSouth, SiteOffGrid} :
        Config(surface, TRUE, tilt, azimuth, shading, None, NoneValue, prec,
               NoneValue, <<None, None>>, TRUE, Epw(TRUE, lat, site))

\* runs over the precision, the hemisphere, the origin and the site
InitGrid ==
    \E prec \in PrecisionInputs, lat \in Latitudes,
       site \in {SiteNorth, SiteSouth, SiteOffGrid, SiteDark},
       azimuth \in {18000, 0}, org \in {<<None, None>>, <<0 - 10, 3>>} :
        Config(PVsurfaceFlat, TRUE, 4500, azimuth, PyFloat(125), None, NoneValue,
               prec, NoneValue, org, TRUE, Epw(TRUE, lat, site))

\* runs over the inputs that stop a run or are replaced by a default
InitOther ==
    \E surface \in {PVsurfaceNone, PVsurfaceArea, PVsurfaceKw, PVsurfaceText,
                    PVsurfacePoly, PVsurfaceFlat},
       epwFile \in BOOLEAN, valid \in BOOLEAN, runIt \in BOOLEAN,
       north \in {None, 0, 90, 360, 0 - 1, 361},
       shading \in {NoneValue, PyFloat(0 - 50)},
       alb \in {NoneValue, PyFloat(3), PyInt(2), PyFloat(0 - 1)},
       scl \in {NoneValue, PyInt(2), PyInt(0 - 1)} :
        Config(surface, epwFile, None, 27000, shading, north, alb, 1, scl,
               <<None, None>>, runIt, Epw(valid, 40, SiteNorth))

Init ==
    /\ InitAngles \/ InitGrid \/ InitOther
    /\ pc = "PVsurfaceInputData"
    /\ printMsg = ""
    /\ PVsurfaceInputType = "None"
    /\ latitude = None
    /\ annualShading = NoneValue
    /\ albedo = NoneValue
    /\ precision = None
    /\ scale = NoneValue
    /\ originOffset = <<None, None>>
    /\ anglesClockwise = "unset"
    /\ srfAzimuthD = None
    /\ surfaceTiltDCalculated = None
    /\ correctedSrfAzimuthD = None
    /\ srfTiltD = None
    /\ srfTiltTOFList = <<>>
    /\ srfAzimuthTOFList = <<>>
    /\ meshPtStepU = None
    /\ meshPtStepV = None
    /\ i = None
    /\ k = None
    /\ meshPts = <<>>
    /\ totalRadiationPerYearL = <<>>
    /\ maximalTotalRadiationPerYear = None
    /\ optimalAzimuthD = None
    /\ optimalTiltD = None
    /\ totalRadiationPerYear = None
    /\ TOF = None
    /\ TSRF = None
    /\ PVsurfaceTilt = None
    /\ PVsurfaceAzimuth = None
    /\ optimalTilt = None
    /\ optimalAzimuth = None
    /\ optimalRadiation = None

----------------------------------------------------------------------------
(* The module entry up to the call of main() *)

\* "if _PVsurface:" and PVsurfaceInputData
CheckPVsurface ==
    /\ pc = "PVsurfaceInputData"
    /\ LET r == PVsurfaceInputData(_PVsurface) IN
        /\ PVsurfaceInputType' = r.PVsurfaceInputType
        /\ printMsg' = r.printMsg
        /\ pc' = IF r.validPVsurfaceData THEN "getEpwData" ELSE "stopped"
    /\ UNCHANGED <<outputs, inputs, latitude, annualShading, albedo, precision, scale,
                   originOffset, anglesClockwise, orientation, grid, results>>

\* getEpwData, "if validEpwData:", "if _runIt:" and "anglesClockwise = True"
GetEpwData ==
    /\ pc = "getEpwData"
    /\ IF ~_epwFile
       THEN /\ printMsg' = "Please supply .epw file path"
            /\ pc' = "stopped"
            /\ UNCHANGED <<latitude, annualShading, albedo, precision, scale,
                           originOffset, anglesClockwise>>
       ELSE IF ~epw.valid
       THEN /\ printMsg' = "Something is wrong with _epwFile input"
            /\ pc' = "stopped"
            /\ UNCHANGED <<latitude, annualShading, albedo, precision, scale,
                           originOffset, anglesClockwise>>
       ELSE /\ latitude' = epw.latitude
            /\ annualShading' = ShadingOrDefault(annualShading_)
            /\ albedo' = AlbedoOrDefault(albedo_)
            /\ precision' = PrecisionOrDefault(precision_)
            /\ scale' = ScaleOrDefault(scale_)
            /\ originOffset' = OriginOffset(origin_)
            /\ anglesClockwise' = IF _runIt THEN TRUE ELSE anglesClockwise
            /\ printMsg' = IF _runIt THEN "ok" ELSE "All inputs are ok"
            /\ pc' = IF _runIt THEN "srfAzimuthAngle" ELSE "stopped"
    /\ UNCHANGED <<outputs, inputs, PVsurfaceInputType, orientation, grid, results>>

CallSrfAzimuthAngle ==
    /\ pc = "srfAzimuthAngle"
    /\ LET r == SrfAzimuthAngle(PVsurfaceAzimuthAngle_, PVsurfaceInputType,
                                _PVsurface, latitude) IN
        IF r.bound
        THEN /\ srfAzimuthD' = r.srfAzimuthD
             /\ surfaceTiltDCalculated' = r.surfaceTiltDCalculated
             /\ pc' = "correctSrfAzimuthDforNorth"
             /\ UNCHANGED printMsg
        ELSE /\ printMsg' = "UnboundLocalError"
             /\ pc' = "error"
             /\ UNCHANGED <<srfAzimuthD, surfaceTiltDCalculated>>
    /\ UNCHANGED <<outputs, inputs, validated, correctedSrfAzimuthD, srfTiltD, grid,
                   results>>

CallCorrectSrfAzimuthDforNorth ==
    /\ pc = "correctSrfAzimuthDforNorth"
    /\ LET r == CorrectSrfAzimuthDforNorth(north_, srfAzimuthD) IN
        IF r.validNorth
        THEN /\ correctedSrfAzimuthD' = r.correctedSrfAzimuthD
             /\ pc' = "srfTiltAngle"
             /\ UNCHANGED printMsg
        ELSE /\ printMsg' = "ValueError"
             /\ pc' = "error"
             /\ UNCHANGED correctedSrfAzimuthD
    /\ UNCHANGED <<outputs, inputs, validated, srfAzimuthD, surfaceTiltDCalculated,
                   srfTiltD, grid, results>>

CallSrfTiltAngle ==
    /\ pc = "srfTiltAngle"
    /\ srfTiltD' = SrfTiltAngle(PVsurfaceTiltAngle_, surfaceTiltDCalculated,
                                PVsurfaceInputType, _PVsurface, latitude)
    /\ pc' = "main"
    /\ UNCHANGED <<outputs, inputs, printMsg, validated, srfAzimuthD,
                   surfaceTiltDCalculated, correctedSrfAzimuthD, grid, results>>

----------------------------------------------------------------------------
(* main() *)

\* the tilt and azimuth lists and the mesh steps
MainBuildGrid ==
    /\ pc = "main"
    /\ srfTiltTOFList' = SrfTiltTOFListOf(precision, anglesClockwise)
    /\ srfAzimuthTOFList' = SrfAzimuthTOFList(precision, latitude, anglesClockwise)
    /\ meshPtStepU' = MeshPtStepU(srfAzimuthTOFList')
    /\ meshPtStepV' = MeshPtStepV(srfTiltTOFList')
    /\ i' = 0
    /\ k' = 0
    /\ meshPts' = <<>>
    /\ totalRadiationPerYearL' = <<>>
    /\ pc' = "grid"
    /\ UNCHANGED <<outputs, inputs, printMsg, validated, orientation, results>>

\* the outer loop left after the first row of cells
MainGridCellLeavesEarly ==
    /\ pc = "grid"
    /\ totalRadiationPerYearL' =
           Append(totalRadiationPerYearL,
                  YearlyRadiation(epw.site, 10 * srfTiltTOFList[i + 1],
                                  10 * srfAzimuthTOFList[k + 1]))
    /\ meshPts' = Append(meshPts, MeshPt(originOffset, meshPtStepU, meshPtStepV, i, k))
    /\ IF k + 1 < Len(srfAzimuthTOFList)
       THEN /\ k' = k + 1
            /\ UNCHANGED <<i, pc>>
       ELSE /\ k' = 0
            /\ i' = i + 1
            /\ pc' = "optimum"
    /\ UNCHANGED <<outputs, inputs, printMsg, validated, orientation, srfTiltTOFList,
                   srfAzimuthTOFList, meshPtStepU, meshPtStepV, results>>

\* one pass of the inner loop: the yearly total and the mesh point of cell (i,k)
MainGridCell ==
    /\ pc = "grid"
    /\ totalRadiationPerYearL' =
           Append(totalRadiationPerYearL,
                  YearlyRadiation(epw.site, 10 * srfTiltTOFList[i + 1],
                                  10 * srfAzimuthTOFList[k + 1]))
    /\ meshPts' = Append(meshPts, MeshPt(originOffset, meshPtStepU, meshPtStepV, i, k))
    /\ IF k + 1 < Len(srfAzimuthTOFList)
       THEN /\ k' = k + 1
            /\ UNCHANGED <<i, pc>>
       ELSE /\ k' = 0
            /\ i' = i + 1
            /\ pc' = IF i + 1 < Len(srfTiltTOFList) THEN "grid" ELSE "optimum"
    /\ UNCHANGED <<outputs, inputs, printMsg, validated, orientation, srfTiltTOFList,
                   srfAzimuthTOFList, meshPtStepU, meshPtStepV, results>>

\* the division by a zero maximum caught, the run ended quietly
MainOptimumSwallowsError ==
    /\ pc = "optimum"
    /\ maximalTotalRadiationPerYear' =
           MaximalTotalRadiationPerYear(totalRadiationPerYearL)
    /\ IF maximalTotalRadiationPerYear' = 0
       THEN /\ pc' = "stopped"
            /\ UNCHANGED <<printMsg, optimalAzimuthD, optimalTiltD>>
       ELSE \E j \in 1..Len(meshPts) :
            /\ totalRadiationPerYearL[j] = maximalTotalRadiationPerYear'
            /\ optimalAzimuthD' = OptimalAzimuthD(meshPts[j][1] - originOffset[1],
                                                  latitude, anglesClockwise)
            /\ optimalTiltD' = OptimalTiltD(meshPts[j][2] - originOffset[2])
            /\ pc' = "analysed"
            /\ UNCHANGED printMsg
    /\ UNCHANGED <<outputs, inputs, validated, orientation, grid, totalRadiationPerYear,
                   TOF, TSRF>>

\* the grid's maximum, the percents (a division by the maximum) and the
\* optimum; the closest-point search ends on a mesh point of a cell that
\* holds the maximum
MainOptimum ==
    /\ pc = "optimum"
    /\ maximalTotalRadiationPerYear' =
           MaximalTotalRadiationPerYear(totalRadiationPerYearL)
    /\ IF maximalTotalRadiationPerYear' = 0
       THEN /\ printMsg' = "ZeroDivisionError"
            /\ pc' = "error"
            /\ UNCHANGED <<optimalAzimuthD, optimalTiltD>>
       ELSE \E j \in 1..Len(meshPts) :
            /\ totalRadiationPerYearL[j] = maximalTotalRadiationPerYear'
            /\ optimalAzimuthD' = OptimalAzimuthD(meshPts[j][1] - originOffset[1],
                                                  latitude, anglesClockwise)
            /\ optimalTiltD' = OptimalTiltD(meshPts[j][2] - originOffset[2])
            /\ pc' = "analysed"
            /\ UNCHANGED printMsg
    /\ UNCHANGED <<outputs, inputs, validated, orientation, grid, totalRadiationPerYear,
                   TOF, TSRF>>

\* the analysed surface simulated at the north-corrected azimuth
MainAnalysedNorthCorrected ==
    /\ pc = "analysed"
    /\ totalRadiationPerYear' =
           YearlyRadiation(epw.site, srfTiltD,
                           AnalysedAzimuthD(correctedSrfAzimuthD, latitude,
                                            anglesClockwise))
    /\ TOF' = Tof(totalRadiationPerYear', maximalTotalRadiationPerYear)
    /\ TSRF' = Tsrf(TOF', annualShading)
    /\ pc' = "createGeometry"
    /\ UNCHANGED <<outputs, inputs, printMsg, validated, orientation, grid,
                   maximalTotalRadiationPerYear, optimalAzimuthD, optimalTiltD>>

\* the analysed surface's yearly total, TOF and TSRF; main() returns
MainAnalysed ==
    /\ pc = "analysed"
    /\ totalRadiationPerYear' =
           YearlyRadiation(epw.site, srfTiltD,
                           AnalysedAzimuthD(srfAzimuthD, latitude, anglesClockwise))
    /\ TOF' = Tof(totalRadiationPerYear', maximalTotalRadiationPerYear)
    /\ TSRF' = Tsrf(TOF', annualShading)
    /\ pc' = "createGeometry"
    /\ UNCHANGED <<outputs, inputs, printMsg, validated, orientation, grid,
                   maximalTotalRadiationPerYear, optimalAzimuthD, optimalTiltD>>

\* createGeometry, legendGeometry, printOutput and the outputs' assignment
Finish ==
    /\ pc = "createGeometry"
    /\ printMsg' = "results successfully completed"
    /\ pc' = "done"
    /\ PVsurfaceTilt' = srfTiltD
    /\ PVsurfaceAzimuth' = srfAzimuthD
    /\ optimalTilt' = optimalTiltD
    /\ optimalAzimuth' = optimalAzimuthD
    /\ optimalRadiation' = OptimalRadiation(maximalTotalRadiationPerYear)
    /\ UNCHANGED <<inputs, validated, orientation, grid, results>>

Next ==
    \/ CheckPVsurface
    \/ GetEpwData
    \/ CallSrfAzimuthAngle
    \/ CallCorrectSrfAzimuthDforNorth
    \/ CallSrfTiltAngle
    \/ MainBuildGrid
    \/ MainGridCell
    \/ MainOptimum
    \/ MainAnalysed
    \/ Finish

Spec == Init /\ [][Next]_vars

----------------------------------------------------------------------------
(* Properties of TOF and TSRF *)

\* main() has returned TOF and TSRF
Returned == pc \in {"createGeometry", "done"}

\* t (tenths) is num/den rounded to one decimal, halves away from zero
\* (for num >= 0, den > 0)
IsRounded1(t, num, den) ==
    /\ 2 * t * den <= 20 * num + den
    /\ 2 * t * den > 20 * num - den

\* C1: for a yearly total >= 0, a grid maximum > 0 and a validated
\* annualShading, the TOF main() returns is at most 100 and the TSRF is at
\* most the TOF whenever annualShading >= 0.
C1_TofAtMost100TsrfAtMostTof ==
    Returned =>
        /\ TOF <= 1000
        /\ annualShading.v >= 0 => TSRF <= TOF

\* a run whose analysed surface beats every grid cell (the replacement by
\* 100 acts) and whose shading lowers the TSRF
C1_Witness ==
    /\ pc = "done"
    /\ totalRadiationPerYear > maximalTotalRadiationPerYear
    /\ TOF = 1000
    /\ annualShading.v > 0
    /\ TSRF < TOF

\* C2: TOF is 100 * analysed total / grid maximum rounded to one decimal,
\* replaced by 100 when the rounded value exceeds 100; the grid maximum is
\* the maximum of the yearly totals of all grid cells.
C2_TofIsRoundedRatio ==
    Returned =>
        /\ Len(totalRadiationPerYearL) = (precision + 1) * (precision + 1)
        /\ \A j \in 1..Len(totalRadiationPerYearL) :
               totalRadiationPerYearL[j] <= maximalTotalRadiationPerYear
        /\ \E j \in 1..Len(totalRadiationPerYearL) :
               totalRadiationPerYearL[j] = maximalTotalRadiationPerYear
        /\ \/ /\ TOF < 1000
              /\ IsRounded1(TOF, 100 * totalRadiationPerYear,
                            maximalTotalRadiationPerYear)
           \/ /\ TOF = 1000
              /\ \E t \in 1000..(1000 * totalRadiationPerYear + 1000) :
                     IsRounded1(t, 100 * totalRadiationPerYear,
                                maximalTotalRadiationPerYear)

\* a run where the ratio is no whole number of tenths and the maximum is
\* neither the first nor the last cell's total
C2_Witness ==
    /\ pc = "done"
    /\ TOF > 0
    /\ TOF < 1000
    /\ (1000 * totalRadiationPerYear) % maximalTotalRadiationPerYear # 0
    /\ totalRadiationPerYearL[1] < maximalTotalRadiationPerYear
    /\ totalRadiationPerYearL[Len(totalRadiationPerYearL)]
           < maximalTotalRadiationPerYear

\* C3 (as claimed): for every TOF and every annualShading in [0,100], of int
\* or of float type, TSRF is TOF * (100 - annualShading) / 100 rounded to one
\* decimal.
C3_TsrfIsRoundedProduct ==
    Returned =>
        IsRounded1(TSRF, TOF * (1000 - annualShading.v), 10000)

\* C5: with annualShading = 100 the TSRF is 0 for every TOF.
C5_FullShadingGivesZeroTsrf ==
    (Returned /\ annualShading.v = 1000) => TSRF = 0

\* a fully shaded run with a positive TOF
C5_Witness ==
    /\ pc = "done"
    /\ annualShading.v = 1000
    /\ annualShading.type = "float"
    /\ TOF > 0
    /\ TSRF = 0

\* C6 (as claimed): every TOF of a completed run is greater than 0 and at
\* most 100.
C6_TofPositive ==
    pc = "done" => (TOF > 0 /\ TOF <= 1000)

\* C6 (amended): every TOF of a completed run is at least 0 and at most 100;
\* it is 0 exactly when the analysed total is less than 0.05 percent of the
\* grid maximum.
C6_TofBetween0And100 ==
    pc = "done" =>
        /\ TOF >= 0
        /\ TOF <= 1000
        /\ TOF = 0 <=> 2000 * totalRadiationPerYear < maximalTotalRadiationPerYear

\* a completed run whose analysed surface receives nothing
C6_Witness ==
    /\ pc = "done"
    /\ totalRadiationPerYear = 0
    /\ maximalTotalRadiationPerYear > 0
    /\ TOF = 0

----------------------------------------------------------------------------
(* Properties of the grid *)

\* main() has built the tilt and azimuth lists
GridBuilt == pc \in {"grid", "optimum", "analysed", "createGeometry", "done"}

\* main() has simulated every grid cell
GridSimulated == pc \in {"optimum", "analysed", "createGeometry", "done"}

\* the place of cell (row ii, column kk) in meshPts and totalRadiationPerYearL
CellIndex(ii, kk) == ii * (precision + 1) + kk + 1

\* C4: when the analysed surface's tilt and azimuth are those of the grid
\* cell holding the maximum yearly total, the TOF is exactly 100.0.
C4_OptimumCellGivesTof100 ==
    Returned =>
        \A ii \in 0..precision, kk \in 0..precision :
            ( /\ totalRadiationPerYearL[CellIndex(ii, kk)]
                     = maximalTotalRadiationPerYear
              /\ srfTiltD = 10 * srfTiltTOFList[ii + 1]
              /\ srfAzimuthD = 10 * srfAzimuthTOFList[kk + 1] )
            => TOF = 1000

\* a southern run whose analysed surface is the optimum cell and whose
\* azimuth main() raised by 360 before simulating it, with other cells lower
C4_Witness ==
    /\ pc = "done"
    /\ latitude < 0
    /\ AnalysedAzimuthD(srfAzimuthD, latitude, anglesClockwise) # srfAzimuthD
    /\ \E ii \in 0..precision, kk \in 0..precision :
          /\ totalRadiationPerYearL[CellIndex(ii, kk)] = maximalTotalRadiationPerYear
          /\ srfTiltD = 10 * srfTiltTOFList[ii + 1]
          /\ srfAzimuthD = 10 * srfAzimuthTOFList[kk + 1]
    /\ \E j \in 1..Len(totalRadiationPerYearL) :
          totalRadiationPerYearL[j] < maximalTotalRadiationPerYear
    /\ TOF = 1000

\* C7 (as claimed): for every precision the tilt list is uniform with step
\* 90/precision, starts at 0 and ends at 90.
C7_TiltListUniform0To90 ==
    GridBuilt =>
        /\ srfTiltTOFList[1] = 0
        /\ srfTiltTOFList[Len(srfTiltTOFList)] = 90
        /\ \A j \in 1..(Len(srfTiltTOFList) - 1) :
               precision * (srfTiltTOFList[j + 1] - srfTiltTOFList[j]) = 90

\* C8 (as claimed): for every precision the azimuth list has uniform step
\* 180/precision, its end values are 90 and 270, it runs through 180 for
\* latitude >= 0 and through 0 (wrapped at 360) for latitude < 0, and every
\* azimuth lies in [0,360).
C8_AzimuthListUniformWindow ==
    GridBuilt =>
        LET n == Len(srfAzimuthTOFList)
            \* the window's start, and each element's distance from it
            start == IF latitude >= 0 THEN 90 ELSE 270
            along(a) == (a - start) % 360
        IN  /\ {srfAzimuthTOFList[1], srfAzimuthTOFList[n]} = {90, 270}
            /\ \A j \in 1..n : srfAzimuthTOFList[j] >= 0 /\ srfAzimuthTOFList[j] < 360
            /\ \A j \in 1..n : along(srfAzimuthTOFList[j]) <= 180
            /\ \A j \in 1..(n - 1) :
                   precision * Abs(along(srfAzimuthTOFList[j + 1])
                                   - along(srfAzimuthTOFList[j])) = 180

\* C9 (as claimed): for every row ii and column kk the optimum formulas turn
\* the mesh point of cell (ii,kk) back into tiltList[ii] and azimuthList[kk],
\* and the first and last labels of the azimuth axis are azimuthList[0] and
\* azimuthList[precision].
C9_MeshPointsRoundTrip ==
    GridSimulated =>
        /\ \A ii \in 0..precision, kk \in 0..precision :
              LET pt == meshPts[CellIndex(ii, kk)] IN
                /\ OptimalTiltD(pt[2] - originOffset[2]) = 10 * srfTiltTOFList[ii + 1]
                /\ OptimalAzimuthD(pt[1] - originOffset[1], latitude, anglesClockwise)
                       = 10 * srfAzimuthTOFList[kk + 1]
        /\ XAxisNotchValues(latitude, anglesClockwise)[1] = srfAzimuthTOFList[1]
        /\ XAxisNotchValues(latitude, anglesClockwise)[7]
               = srfAzimuthTOFList[precision + 1]

\* C10: the tilt list and the azimuth list have precision+1 elements each,
\* and the list of yearly totals has (precision+1)*(precision+1) entries in
\* tilt-major, azimuth-minor order.
C10_GridSizesAndOrder ==
    /\ GridBuilt =>
          /\ Len(srfTiltTOFList) = precision + 1
          /\ Len(srfAzimuthTOFList) = precision + 1
    /\ pc = "grid" =>
          /\ Len(totalRadiationPerYearL) = i * (precision + 1) + k
          /\ Len(meshPts) = Len(totalRadiationPerYearL)
    /\ GridSimulated =>
          /\ Len(totalRadiationPerYearL) = (precision + 1) * (precision + 1)
          /\ \A ii \in 0..precision, kk \in 0..precision :
                totalRadiationPerYearL[CellIndex(ii, kk)]
                    = YearlyRadiation(epw.site, 10 * srfTiltTOFList[ii + 1],
                                      10 * srfAzimuthTOFList[kk + 1])

\* a simulated grid of at least 4 x 4 cells whose rows differ and whose
\* columns differ
C10_Witness ==
    /\ pc = "optimum"
    /\ precision >= 3
    /\ Len(totalRadiationPerYearL) = (precision + 1) * (precision + 1)
    /\ totalRadiationPerYearL[CellIndex(0, 1)] # totalRadiationPerYearL[CellIndex(1, 0)]
    /\ totalRadiationPerYearL[CellIndex(0, 0)] # totalRadiationPerYearL[CellIndex(0, 1)]

----------------------------------------------------------------------------
(* The sweep direction *)

Reverse(s) == [j \in 1..Len(s) |-> s[Len(s) + 1 - j]]

\* C11: for the precision and the latitude of the run, the azimuth list that
\* main() builds is the exact reverse of the list its other anglesClockwise
\* branch builds, and the tilt list is the one the other branch builds
C11_AzimuthListsMirrored ==
    GridBuilt =>
        /\ anglesClockwise \in BOOLEAN
        /\ srfAzimuthTOFList =
               Reverse(SrfAzimuthTOFList(precision, latitude, ~anglesClockwise))
        /\ srfTiltTOFList = SrfTiltTOFListOf(precision, ~anglesClockwise)

\* a southern grid of eight columns, whose list wraps through 0
C11_Witness ==
    /\ GridBuilt
    /\ latitude < 0
    /\ precision = MaxPrecision
    /\ srfAzimuthTOFList[1] # srfAzimuthTOFList[Len(srfAzimuthTOFList)]
    /\ \E j \in 2..Len(srfAzimuthTOFList) :
           srfAzimuthTOFList[j] < srfAzimuthTOFList[j - 1]

----------------------------------------------------------------------------
(* The analysed surface's angles *)

\* srfAzimuthAngle has been called: it returned, or the run ended in an error
\* (the first error a run can end in is the one of srfAzimuthAngle)
SrfAzimuthAngleCalled ==
    pc \in {"correctSrfAzimuthDforNorth", "srfTiltAngle", "main", "grid",
            "optimum", "analysed", "createGeometry", "done", "error"}

\* srfTiltAngle has returned
SrfTiltAngleReturned ==
    \/ pc \in {"main", "grid", "optimum", "analysed", "createGeometry", "done"}
    \/ pc = "error" /\ printMsg = "ZeroDivisionError"

\* azimuthD (tenths) is the default of the hemisphere of lat: 180 north of the
\* equator, 0 south of it, one of the two on it
IsHemisphereDefault(azimuthD, lat) ==
    /\ azimuthD \in {0, 1800}
    /\ lat > 0 => azimuthD = 1800
    /\ lat < 0 => azimuthD = 0

\* C12: with an explicit PVsurfaceAzimuthAngle_ outside [0, 360]
\* srfAzimuthAngle returns the hemisphere default (180 or 0) at every
\* latitude; an explicit value inside the range is returned rounded to one
\* decimal, whatever the type of _PVsurface
C12_ExplicitAzimuthResolved ==
    SrfAzimuthAngleCalled /\ PVsurfaceAzimuthAngle_ # None =>
        /\ printMsg # "UnboundLocalError"
        /\ IF PVsurfaceAzimuthAngle_ < 0 \/ PVsurfaceAzimuthAngle_ > 36000
           THEN IsHemisphereDefault(srfAzimuthD, latitude)
           ELSE IsRounded1(srfAzimuthD, PVsurfaceAzimuthAngle_, 100)

\* C13: with no explicit tilt and azimuth and a numeric _PVsurface the
\* azimuth is the equator-facing one (180 north, 0 south) and the tilt is
\* |latitude|, at every latitude
C13_AreaInputFacesEquator ==
    /\ PVsurfaceInputType = "number"
    /\ PVsurfaceTiltAngle_ = None
    /\ PVsurfaceAzimuthAngle_ = None
    =>
    /\ SrfAzimuthAngleCalled =>
           /\ printMsg # "UnboundLocalError"
           /\ IsHemisphereDefault(srfAzimuthD, latitude)
    /\ SrfTiltAngleReturned => srfTiltD = 10 * Abs(latitude)

\* C14 as stated: the orientation handed to main() and reported as
\* PVsurfaceTilt / PVsurfaceAzimuth has its tilt in [0, 180] and its azimuth
\* in [0, 360), 360 excluded
C14_AzimuthBelow360 ==
    /\ SrfTiltAngleReturned =>
           /\ 0 <= srfTiltD /\ srfTiltD <= 1800
           /\ 0 <= srfAzimuthD /\ srfAzimuthD < 3600
    /\ pc = "done" =>
           /\ 0 <= PVsurfaceTilt /\ PVsurfaceTilt <= 1800
           /\ 0 <= PVsurfaceAzimuth /\ PVsurfaceAzimuth < 3600

\* C14: the orientation handed to main() and reported as PVsurfaceTilt /
\* PVsurfaceAzimuth has its tilt in [0, 180] and its azimuth in [0, 360],
\* 360 included, and the reported angles are the ones handed to main()
C14_OrientationInRange ==
    /\ SrfTiltAngleReturned =>
           /\ 0 <= srfTiltD /\ srfTiltD <= 1800
           /\ 0 <= srfAzimuthD /\ srfAzimuthD <= 3600
    /\ pc = "done" =>
           /\ PVsurfaceTilt = srfTiltD
           /\ PVsurfaceAzimuth = srfAzimuthD

\* a completed run whose explicit azimuth is 360 and whose explicit tilt is
\* out of range
C14_Witness ==
    /\ pc = "done"
    /\ PVsurfaceAzimuthAngle_ = 36000
    /\ PVsurfaceAzimuth = 3600
    /\ PVsurfaceTiltAngle_ = 18100
    /\ PVsurfaceTilt = 0

\* C15 as stated: an explicit PVsurfaceTiltAngle_ below 0 or above 180 is
\* replaced by 0, and an explicit value inside [0, 180] is the tilt of the
\* run, unchanged, whatever the surface or the latitude would give
C15_ExplicitTiltUnchanged ==
    SrfTiltAngleReturned /\ PVsurfaceTiltAngle_ # None =>
        IF PVsurfaceTiltAngle_ < 0 \/ PVsurfaceTiltAngle_ > 18000
        THEN srfTiltD = 0
        ELSE 10 * srfTiltD = PVsurfaceTiltAngle_

\* C15: an explicit PVsurfaceTiltAngle_ below 0 or above 180 is replaced by
\* 0, and an explicit value inside [0, 180] is the tilt of the run, rounded
\* to one decimal, whatever the surface or the latitude would give
C15_ExplicitTiltWins ==
    SrfTiltAngleReturned /\ PVsurfaceTiltAngle_ # None =>
        IF PVsurfaceTiltAngle_ < 0 \/ PVsurfaceTiltAngle_ > 18000
        THEN srfTiltD = 0
        ELSE IsRounded1(srfTiltD, PVsurfaceTiltAngle_, 100)

\* an explicit tilt of 45 on a surface that slopes at 37.25 degrees, at
\* latitude 40
C15_Witness ==
    /\ SrfTiltAngleReturned
    /\ _PVsurface = PVsurfaceSlope
    /\ latitude = 40
    /\ PVsurfaceTiltAngle_ = 4500
    /\ srfTiltD = 450

----------------------------------------------------------------------------
(* getEpwData's validation and the conditions that stop a run *)

\* getEpwData has returned validEpwData = True
EpwDataValid == latitude # None

\* x is a number (type and value in tenths) within [lo, hi] tenths
IsWithin(x, lo, hi) == x.type # "NoneType" /\ lo <= x.v /\ x.v <= hi

\* C16: after getEpwData succeeds annualShading is in [0, 100], albedo in
\* [0, 1], precision in [1, 100] and scale >= 0; a missing or out-of-range
\* input is replaced by its default (0, 0.2, 2, 1) without stopping the run,
\* an in-range input is passed through unchanged
C16_InputsValidated ==
    EpwDataValid =>
        /\ IsWithin(annualShading, 0, 1000)
        /\ annualShading = IF IsWithin(annualShading_, 0, 1000)
                           THEN annualShading_ ELSE PyInt(0)
        /\ IsWithin(albedo, 0, 10)
        /\ albedo = IF IsWithin(albedo_, 0, 10) THEN albedo_ ELSE PyFloat(2)
        /\ 1 <= precision /\ precision <= 100
        /\ precision = IF precision_ # None /\ 1 <= precision_ /\ precision_ <= 100
                       THEN precision_ ELSE 2
        /\ scale.type # "NoneType" /\ scale.v >= 0
        /\ scale = IF scale_.type # "NoneType" /\ scale_.v >= 0
                   THEN scale_ ELSE PyInt(1)
        /\ pc = "stopped" => ~_runIt

\* a run with a shading of 101 replaced by 0, a precision of 3 kept, and the
\* albedo and scale defaults, that went on to main()
C16_Witness ==
    /\ EpwDataValid
    /\ pc = "grid"
    /\ annualShading_ = PyInt(101) /\ annualShading = PyInt(0)
    /\ precision_ = 3 /\ precision = 3
    /\ albedo_ = NoneValue /\ albedo = PyFloat(2)
    /\ scale_ = NoneValue /\ scale = PyInt(1)

\* the run ended without results: a warning (stopped) or an exception (error)
Ended == pc \in {"stopped", "error"}

\* none of TOF, TSRF, optimalTilt, optimalAzimuth, optimalRadiation is set
NoNumericOutput ==
    /\ TOF = None /\ TSRF = None
    /\ optimalTilt = None /\ optimalAzimuth = None /\ optimalRadiation = None

\* every cell of the grid and the analysed surface have been simulated
AllSimulated ==
    /\ precision # None
    /\ Len(totalRadiationPerYearL) = (precision + 1) * (precision + 1)
    /\ totalRadiationPerYear # None

\* TOF and TSRF, and the optimal* outputs, are set only after the whole grid
\* and the analysed surface have been simulated
OutputsOnlyAfterSimulation ==
    /\ TOF # None \/ TSRF # None =>
           AllSimulated /\ TOF # None /\ TSRF # None
    /\ optimalTilt # None \/ optimalAzimuth # None \/ optimalRadiation # None =>
           /\ AllSimulated /\ TOF # None /\ TSRF # None
           /\ optimalTilt # None /\ optimalAzimuth # None /\ optimalRadiation # None

\* C17 as stated: the numeric outputs are set only after the whole grid and
\* the analysed surface have been simulated, and every run that ends without
\* results (missing or invalid inputs, invalid north, zero grid maximum) ends
\* before the first grid cell is simulated
C17_FatalStopsBeforeGrid ==
    /\ OutputsOnlyAfterSimulation
    /\ Ended => NoNumericOutput /\ totalRadiationPerYearL = <<>>

\* C17: the numeric outputs are set only after the whole grid and the
\* analysed surface have been simulated; a run that ends on missing or
\* invalid inputs or an invalid north ends before the first grid cell is
\* simulated, and a run that ends on a zero grid maximum ends after the
\* whole grid is simulated, with no numeric output set
C17_NoPartialResults ==
    /\ OutputsOnlyAfterSimulation
    /\ Ended => NoNumericOutput
    /\ Ended /\ printMsg # "ZeroDivisionError" => totalRadiationPerYearL = <<>>
    /\ Ended /\ printMsg = "ZeroDivisionError" =>
           /\ Len(totalRadiationPerYearL) = (precision + 1) * (precision + 1)
           /\ \A j \in 1..Len(totalRadiationPerYearL) : totalRadiationPerYearL[j] = 0

\* a run over a weather file without radiation, ended after its 16 cells
C17_Witness ==
    /\ pc = "error"
    /\ printMsg = "ZeroDivisionError"
    /\ precision = 3
    /\ Len(totalRadiationPerYearL) = 16
    /\ NoNumericOutput

\* main() has not been called
MainNotCalled ==
    /\ srfTiltTOFList = <<>> /\ srfAzimuthTOFList = <<>>
    /\ totalRadiationPerYearL = <<>>
    /\ totalRadiationPerYear = None

\* C18: with _PVsurface missing, or the EPW file missing or unreadable, the
\* run goes no further than the input checks, ends with the warning message
\* of the failed check, never calls main() and sets no numeric output,
\* whatever _runIt and the other inputs are
C18_MissingInputsAbort ==
    _PVsurface.kind = "None" \/ ~_epwFile \/ ~epw.valid =>
        /\ pc \in {"PVsurfaceInputData", "getEpwData", "stopped"}
        /\ MainNotCalled
        /\ NoNumericOutput
        /\ pc = "stopped" /\ _PVsurface.kind = "None" =>
               printMsg = "Please input Surface"
        /\ pc = "stopped" /\ PVsurfaceInputType # "None" /\ ~_epwFile =>
               printMsg = "Please supply .epw file path"
        /\ pc = "stopped" /\ PVsurfaceInputType # "None" /\ _epwFile =>
               printMsg = "Something is wrong with _epwFile input"

\* an area and _runIt = True with a weather file that cannot be read
C18_Witness ==
    /\ pc = "stopped"
    /\ _runIt
    /\ _PVsurface = PVsurfaceArea
    /\ _epwFile /\ ~epw.valid
    /\ printMsg = "Something is wrong with _epwFile input"
    /\ MainNotCalled /\ NoNumericOutput

\* C19: PVsurfaceInputData reports valid input exactly when _PVsurface is a
\* brep with a single face or a value convertible to a number; a multi-face
\* brep, a "kw" string and any other string are rejected with their message,
\* and the run ends there
C19_PVsurfaceValidity ==
    pc # "PVsurfaceInputData" =>
        IF \/ _PVsurface.kind = "brep" /\ _PVsurface.faces = 1
           \/ _PVsurface.kind = "number"
        THEN /\ PVsurfaceInputType = _PVsurface.kind
             /\ printMsg \notin {"polysurface", "kw not supported",
                                  "Something is wrong with PVsurface",
                                  "Please input Surface"}
        ELSE /\ PVsurfaceInputType = "None"
             /\ pc = "stopped"
             /\ latitude = None
             /\ MainNotCalled /\ NoNumericOutput
             /\ _PVsurface.kind = "brep" => printMsg = "polysurface"
             /\ _PVsurface.kind = "kw" => printMsg = "kw not supported"
             /\ _PVsurface.kind = "text" =>
                    printMsg = "Something is wrong with PVsurface"

\* a polysurface rejected although the weather file is readable and _runIt
\* is True
C19_Witness ==
    /\ pc = "stopped"
    /\ _PVsurface = PVsurfacePoly
    /\ _epwFile /\ epw.valid /\ _runIt
    /\ printMsg = "polysurface"
    /\ PVsurfaceInputType = "None"

\* C20: when the largest yearly total of the grid is 0 (or less) the run
\* ends in a ZeroDivisionError that nothing catches, and no TOF or TSRF (nor
\* any other numeric output) is returned
C20_ZeroMaximumFails ==
    /\ pc \notin {"grid", "optimum"}
    /\ precision # None
    /\ Len(totalRadiationPerYearL) = (precision + 1) * (precision + 1)
    /\ \A j \in 1..Len(totalRadiationPerYearL) : totalRadiationPerYearL[j] <= 0
    =>
    /\ pc = "error"
    /\ printMsg = "ZeroDivisionError"
    /\ NoNumericOutput

\* the run over the weather file without radiation, after line 418 failed
C20_Witness ==
    /\ epw.site = SiteDark
    /\ maximalTotalRadiationPerYear = 0
    /\ pc = "error"
    /\ printMsg = "ZeroDivisionError"
    /\ TOF = None /\ TSRF = None

----------------------------------------------------------------------------
(* The calendar *)

\* days of a non-leap year before month m
RECURSIVE DaysBeforeMonth(_)
DaysBeforeMonth(m) ==
    IF m = 1 THEN 0
    ELSE DaysBeforeMonth(m - 1) +
         (IF m - 1 = 2 THEN 28 ELSE IF m - 1 \in {4, 6, 9, 11} THEN 30 ELSE 31)

\* the month of day-of-year d (d = 0 is January 1) of a non-leap year
MonthOfDay(d) ==
    CHOOSE m \in 1..12 :
        DaysBeforeMonth(m) <= d /\ (m = 12 \/ d < DaysBeforeMonth(m + 1))

\* the four sequences are the hours of a non-leap year in order: entry h
\* (counted from 0) is hour (h mod 24) + 1 of day h div 24 of the year
CalendarChronological ==
    /\ Len(MonthsHOY) = 8760 /\ Len(DaysHOY) = 8760
    /\ Len(HoursHOY) = 8760 /\ Len(HOYs) = 8760
    /\ MonthsHOY[1] = 1 /\ DaysHOY[1] = 1 /\ HoursHOY[1] = 1 /\ HOYs[1] = 1
    /\ \A h \in 0..8759 :
           /\ HOYs[h + 1] = h + 1
           /\ HoursHOY[h + 1] = (h % 24) + 1
           /\ MonthsHOY[h + 1] = MonthOfDay(h \div 24)
           /\ DaysHOY[h + 1] = (h \div 24) - DaysBeforeMonth(MonthOfDay(h \div 24)) + 1

\* C21: the month, day-of-month, hour-of-day and HOY sequences that
\* getEpwData builds each have exactly 8760 entries in the chronological
\* order of a non-leap year: entry 0 is January 1 hour 1, the hours cycle
\* 1..24 within each day, the day restarts at 1 at each month boundary, and
\* month, day and hour agree at every index
C21_CalendarChronological ==
    EpwDataValid => CalendarChronological

\* getEpwData has succeeded; the entries around the January/February
\* boundary and the last one
C21_Witness ==
    /\ EpwDataValid
    /\ MonthsHOY[744] = 1 /\ DaysHOY[744] = 31 /\ HoursHOY[744] = 24
    /\ MonthsHOY[745] = 2 /\ DaysHOY[745] = 1 /\ HoursHOY[745] = 1
    /\ MonthsHOY[8760] = 12 /\ DaysHOY[8760] = 31 /\ HoursHOY[8760] = 24
    /\ HOYs[8760] = 8760

----------------------------------------------------------------------------
(* The flat mesh *)

\* C22: the flat TOF mesh is 80 units wide and 45 units high: the last
\* azimuth column lies at X = originOffset.X + 80, the last tilt row at
\* Y = originOffset.Y + 45, and distinct grid cells lie at distinct mesh
\* points
C22_MeshIs80By45 ==
    GridSimulated =>
        /\ meshPts[Len(meshPts)][1] = originOffset[1] + 80
        /\ meshPts[Len(meshPts)][2] = originOffset[2] + 45
        /\ \A a, b \in 1..Len(meshPts) : a # b => meshPts[a] # meshPts[b]

----------------------------------------------------------------------------
(* north_ *)

\* correctSrfAzimuthDforNorth has been called and the entry has taken, or
\* failed to take, what it returned
NorthCalled ==
    \/ pc \in {"srfTiltAngle", "main", "grid", "optimum", "analysed",
               "createGeometry", "done"}
    \/ pc = "error" /\ printMsg # "UnboundLocalError"

\* C23: when north_ is a number outside [0, 360] the caller of
\* correctSrfAzimuthDforNorth receives validNorth = False with the message
\* "Please input north angle value from 0 to 360.", and the run ends with
\* that message, as a warning and not as an exception, without simulating
C23_InvalidNorthEndsWithMessage ==
    NorthCalled /\ north_ # None /\ (north_ < 0 \/ north_ > 360) =>
        /\ pc = "stopped"
        /\ printMsg = "Please input north angle value from 0 to 360."
        /\ MainNotCalled

\* what a run computes from its inputs other than north_: the angles of the
\* analysed surface, the grid's largest yearly total, the analysed surface's
\* total, TOF and TSRF
NorthFreeAzimuthD ==
    SrfAzimuthAngle(PVsurfaceAzimuthAngle_, PVsurfaceInputType, _PVsurface,
                    epw.latitude).srfAzimuthD

NorthFreeTiltD ==
    SrfTiltAngle(PVsurfaceTiltAngle_,
                 SrfAzimuthAngle(PVsurfaceAzimuthAngle_, PVsurfaceInputType,
                                 _PVsurface, epw.latitude).surfaceTiltDCalculated,
                 PVsurfaceInputType, _PVsurface, epw.latitude)

NorthFreeMaximum ==
    LET p == PrecisionOrDefault(precision_)
        tilts == SrfTiltTOFListOf(p, TRUE)
        azimuths == SrfAzimuthTOFList(p, epw.latitude, TRUE)
        totals == {YearlyRadiation(epw.site, 10 * tilts[a], 10 * azimuths[b]) :
                       a \in 1..(p + 1), b \in 1..(p + 1)}
    IN  CHOOSE t \in totals : \A u \in totals : u <= t

NorthFreeTotal ==
    YearlyRadiation(epw.site, NorthFreeTiltD,
                    AnalysedAzimuthD(NorthFreeAzimuthD, epw.latitude, TRUE))

NorthFreeTOF == Tof(NorthFreeTotal, NorthFreeMaximum)

----------------------------------------------------------------------------
(* The optimum's angles *)

\* azimuthD (tenths) lies in [0, 360) and in the window of the hemisphere:
\* [90, 270] for latitude >= 0, [270, 360) or [0, 90] for latitude < 0
InHemisphereWindow(azimuthD, lat) ==
    /\ 0 <= azimuthD /\ azimuthD < 3600
    /\ IF lat >= 0 THEN 900 <= azimuthD /\ azimuthD <= 2700
       ELSE azimuthD >= 2700 \/ azimuthD <= 900

\* the back-calculation at every point of the mesh whose offsets are
\* multiples of 1/MeshSubdivision, in both hemispheres and on the equator,
\* for both sweep directions
BackCalculationInWindow ==
    /\ \A lat \in Latitudes, clockwise \in BOOLEAN, n \in 0..(80 * MeshSubdivision) :
           InHemisphereWindow(OptimalAzimuthDAt(n, MeshSubdivision, lat, clockwise), lat)
    /\ \A n \in 0..(45 * MeshSubdivision) :
           /\ 0 <= OptimalTiltDAt(n, MeshSubdivision)
           /\ OptimalTiltDAt(n, MeshSubdivision) <= 900

\* main() has computed the optimum's angles
OptimumFound == pc \in {"analysed", "createGeometry", "done"}

\* C25: for an optimum point lying on the mesh (X offset in [0, 80], Y offset
\* in [0, 45]), any latitude and both values of anglesClockwise, the
\* back-calculated optimalTilt lies in [0, 90] and optimalAzimuth lies in
\* [0, 360) inside the hemisphere's window
C25_OptimumInsideWindow ==
    /\ OptimumFound =>
           /\ InHemisphereWindow(optimalAzimuthD, latitude)
           /\ 0 <= optimalTiltD /\ optimalTiltD <= 900
           /\ BackCalculationInWindow
    /\ pc = "done" =>
           /\ optimalAzimuth = optimalAzimuthD
           /\ optimalTilt = optimalTiltD

\* a southern run whose optimum is the middle column, back-calculated as
\* 360 and reported as 0; the points next to it round to 360.0 and are
\* wrapped as well, in either sweep direction
C25_Witness ==
    /\ pc = "done"
    /\ latitude < 0
    /\ epw.site = SiteSouth
    /\ optimalAzimuth = 0
    /\ optimalTilt \in 0..900
    /\ OptimalAzimuthDAt(40 * MeshSubdivision - 1, MeshSubdivision, latitude, TRUE) = 0
    /\ OptimalAzimuthDAt(40 * MeshSubdivision + 1, MeshSubdivision, latitude, FALSE) = 0

====
